---- MODULE Spec2Model ----
(***************************************************************************)
(* A model of ec2-github-runner: one run of the action (getInputs and the  *)
(* function it dispatches to) against the three AWS collaborators (EC2,    *)
(* IAM, SSM).  Every action below is the code between two collaborator     *)
(* calls: the call, the branch on its response and the local code up to    *)
(* the next call.  The collaborators' responses are the inputs of the      *)
(* actions, drawn from small sets.                                         *)
(***************************************************************************)
EXTENDS Integers, Sequences, FiniteSets, TLC

(***************************************************************************)
(* Bounds of the model.                                                    *)
(***************************************************************************)
\* command-max-wait-secs is drawn from -NegCfgWait .. MaxCfgWait
NegCfgWait == 2
MaxCfgWait == 18
\* entries in one DescribeInstanceInformation response
MaxEntries == 2
\* instance profiles that exist before the run
MaxProfiles == 2
\* DescribeInstances calls counted exactly; the counter saturates there
MaxPolls == 3

(***************************************************************************)
(* Program constants.                                                      *)
(***************************************************************************)
\* if commandMaxWaitTime <= 5
WaitFloorThreshold == 5
\* commandMaxWaitTime = 6
MinCommandWait == 6
\* IsSSMAgentRegistered(ctx, action, ssmClient, ec2InstanceId, 60, 5)
RegistrationTimeout == 60
RegistrationInterval == 5
\* ssm.NewCommandExecutedWaiter: the waiter's default MinDelay and MaxDelay
WaiterMinDelay == 5
WaiterMaxDelay == 120

Main == 1
Callers == {1, 2}

Min(a, b) == IF a < b THEN a ELSE b

Max(a, b) == IF a > b THEN a ELSE b

(***************************************************************************)
(* strconv.Atoi on the text of command-max-wait-secs.  A text is a         *)
(* sequence of one-character strings.                                      *)
(***************************************************************************)
Digits == <<"0", "1", "2", "3", "4", "5", "6", "7", "8", "9">>

DigitVal(c) == (CHOOSE i \in 1..10 : Digits[i] = c) - 1

IsDigit(c) == \E i \in 1..10 : Digits[i] = c

RECURSIVE NatText(_)
NatText(n) == IF n < 10 THEN <<Digits[n + 1]>>
              ELSE NatText(n \div 10) \o <<Digits[(n % 10) + 1]>>

\* the decimal text of an integer, as the workflow file carries it
IntText(n) == IF n < 0 THEN <<"-">> \o NatText(0 - n) ELSE NatText(n)

RECURSIVE DigitsValue(_, _)
DigitsValue(s, acc) == IF s = <<>> THEN acc
                       ELSE DigitsValue(Tail(s), 10 * acc + DigitVal(Head(s)))

\* strconv.Atoi: an optional sign, then one or more digits; anything else fails
Atoi(s) ==
  LET signed == s # <<>> /\ Head(s) \in {"+", "-"}
      body == IF signed THEN Tail(s) ELSE s
      ok == body # <<>> /\ \A i \in 1..Len(body) : IsDigit(body[i])
      mag == IF ok THEN DigitsValue(body, 0) ELSE 0
  IN [ok |-> ok,
      val |-> IF signed /\ Head(s) = "-" THEN 0 - mag ELSE mag]

\* the floor with its comparison off by one (a faulty variant)
EffectiveMaxWaitStrict(n) == IF n < WaitFloorThreshold THEN MinCommandWait ELSE n

\* lines 50-53 of getInputs: the floor on the command wait
EffectiveMaxWait(n) == IF n <= WaitFloorThreshold THEN MinCommandWait ELSE n

(***************************************************************************)
(* json.Unmarshal of tag-specifications into []ec2Types.TagSpecification,  *)
(* tabulated on the texts the model feeds it.                              *)
(***************************************************************************)
TagsValid == "[{\"ResourceType\":\"instance\",\"Tags\":[{\"Key\":\"Name\",\"Value\":\"ci\"}]}]"
TagsTruncated == "[{\"ResourceType\":\"instance\","
TagsNotAnArray == "{\"ResourceType\":\"instance\"}"

TagInputs == {"", TagsValid, "[]", TagsTruncated, TagsNotAnArray}

\* a json.Unmarshal that accepts every text (a faulty variant)
UnmarshalTagsLenient(s) ==
  [ok |-> TRUE,
   tags |-> IF s = TagsValid
            THEN <<[ResourceType |-> "instance",
                    Tags |-> <<[Key |-> "Name", Value |-> "ci"]>>]>>
            ELSE <<>>]

UnmarshalTags(s) ==
  CASE s = TagsValid ->
         [ok |-> TRUE,
          tags |-> <<[ResourceType |-> "instance",
                      Tags |-> <<[Key |-> "Name", Value |-> "ci"]>>]>>]
    [] s = "[]" -> [ok |-> TRUE, tags |-> <<>>]
    [] OTHER -> [ok |-> FALSE, tags |-> <<>>]

(***************************************************************************)
(* The state.                                                              *)
(***************************************************************************)
VARIABLES
  in,                 \* the action's inputs (action.GetInput)
  pc,                 \* where the run is
  exitCode,           \* -1 while running, 0 clean exit, 1 after Fatalf
  err,                \* the error that ended the run: [kind, arg]
  outputs,            \* action.SetOutput: a set of <<name, value>>
  warned,             \* action.Warningf was called
  commandMaxWaitTime, \* the effective wait of getInputs
  \* IAM
  profiles,           \* the instance profiles, in list order: [name, roles]
  gpc,                \* GetOrCreateInstanceProfile: each caller's position
  grole,              \* its iamRoleName argument
  gret,               \* its result: [name, err]
  iamLog,             \* the IAM calls issued: [caller, op, profile, role]
  \* EC2
  runCalls,           \* RunInstances calls
  startParams,        \* startParams of CreateAndStartEC2Instance
  provisioned,        \* instance ids RunInstances has returned
  instanceId,         \* instanceId of CreateAndStartEC2Instance
  instanceState,      \* instanceState of WaitForInstanceRunning
  diCalls,            \* DescribeInstances calls (saturating at MaxPolls)
  diSleeps,           \* sleeps of WaitForInstanceRunning (saturating)
  firstRunning,       \* index of the first response with state running, 0: none
  termCalls,          \* TerminateInstances calls
  \* SSM
  timeout,            \* IsSSMAgentRegistered's timeout argument, seconds
  interval,           \* its interval argument, seconds
  regElapsed,         \* seconds since IsSSMAgentRegistered computed endTime
  diiCalls,           \* DescribeInstanceInformation calls
  everOnline,         \* some response held the target's entry with ping Online
  regRet,             \* result of IsSSMAgentRegistered: [set, reg, err]
  lastInfo,           \* the response IsSSMAgentRegistered returned true on
  sendCalls,          \* SendCommand calls
  commandId,          \* commandId of ExecuteCommandOnEC2Instance
  wRemaining,         \* the waiter's remainingTime, seconds
  wAttempt,           \* the waiter's attempt
  wElapsed,           \* seconds since WaitForOutput was entered
  gciCalls,           \* GetCommandInvocation calls
  lastStatus,         \* Status of the last GetCommandInvocation response
  \* the collaborators, as the run saw them
  failed,             \* the API operations that returned an error
  dispatched,         \* command ids SendCommand has returned
  getParams,          \* getCommandParams of GetCommandInvocationDetails
  stopParams          \* stopParams.InstanceIds of TerminateEC2Instance

ctlVars == <<in, pc, exitCode, err, outputs, warned, commandMaxWaitTime>>
iamVars == <<profiles, gpc, grole, gret, iamLog>>
ec2Vars == <<runCalls, startParams, provisioned, instanceId, instanceState,
             diCalls, diSleeps,
             firstRunning, termCalls>>
regVars == <<timeout, interval, regElapsed, diiCalls, everOnline, regRet, lastInfo>>
cmdVars == <<sendCalls, commandId, wRemaining, wAttempt, wElapsed, gciCalls,
             lastStatus>>
ssmVars == <<regVars, cmdVars>>
reqVars == <<failed, dispatched, getParams, stopParams>>
vars == <<ctlVars, iamVars, ec2Vars, ssmVars, reqVars>>

NoErr == [kind |-> "", arg |-> ""]
NoRet == [name |-> "", err |-> ""]
NoReg == [set |-> FALSE, reg |-> FALSE, err |-> FALSE]
NoGetParams == [CommandId |-> "", InstanceId |-> ""]
NoParams == [ImageId |-> "", SubnetId |-> "", SecurityGroupId |-> "",
              InstanceType |-> "", IamInstanceProfile |-> "", Tags |-> <<>>]

(***************************************************************************)
(* Inputs.                                                                 *)
(***************************************************************************)
WaitTexts == {IntText(n) : n \in (0 - NegCfgWait)..MaxCfgWait}
\* the default of action.yml, and an input that was never set
DefaultWaitText == <<"3", "0", "0">>
BadWaitTexts == {<<>>, <<"6", "s">>}

Inputs(mode, amis, subnets, sgs, roles, tags, ids, cmds, waits) ==
  [mode : {mode}, ec2AmiId : amis, subnetId : subnets, securityGroupId : sgs,
   iamRoleName : roles, instanceType : {""}, tagSpecifications : tags,
   ec2InstanceId : ids, command : cmds, commandMaxWaitSecs : waits]

StartInputs ==
  Inputs("start", {"", "ami-1"}, {"", "subnet-1"}, {"", "sg-1"}, {"", "r1"},
         TagInputs, {""}, {""}, {DefaultWaitText} \cup BadWaitTexts)

CommandInputs ==
  Inputs("command", {""}, {""}, {""}, {""}, {""}, {"", "i-1"}, {"", "echo hi"},
         WaitTexts \cup BadWaitTexts \cup {<<"+", "5">>})

StopInputs ==
  Inputs("stop", {""}, {""}, {""}, {""}, {""}, {"", "i-1"}, {""},
         {DefaultWaitText} \cup BadWaitTexts)

OtherInputs ==
  Inputs("", {""}, {""}, {""}, {""}, {""}, {"i-1"}, {""}, {DefaultWaitText})
  \cup Inputs("bogus", {"", "ami-1"}, {""}, {""}, {""}, {""}, {"", "i-1"},
              {"", "echo hi"}, {DefaultWaitText} \cup BadWaitTexts)

(***************************************************************************)
(* The instance profiles that exist before the run.                        *)
(***************************************************************************)
ProfileNames == {"r1", "p0", "p1"}
RoleLists == {<<>>, <<"r1">>, <<"r0">>}
ProfileRecs == [name : ProfileNames, roles : RoleLists]

NoDuplicateName(ps) ==
  \A i, j \in 1..Len(ps) : ps[i].name = ps[j].name => i = j

ProfileLists ==
  {ps \in UNION {[1..n -> ProfileRecs] : n \in 0..MaxProfiles} :
     NoDuplicateName(ps)}

(***************************************************************************)
(* The collaborators' responses.                                           *)
(***************************************************************************)
\* RunInstances: the new instance's id, "" for an API error
RunResponses == {"", "i-1", "i-2"}
\* DescribeInstances: the instance's state name, "error" for an API error
InstanceStates == {"pending", "running", "terminated"}
\* DescribeInstanceInformation: a list of entries
InfoEntries == [InstanceId : {"i-1", "i-2"}, PingStatus : {"Online", "Inactive"}]
InfoResponses == UNION {[1..n -> InfoEntries] : n \in 0..MaxEntries}
\* seconds a DescribeInstanceInformation call takes (0: under a second)
DescribeLatencies == {0, 1}
\* SendCommand: the command's id, "" for an API error
SendResponses == {"", "c-1", "c-2"}
\* GetCommandInvocation: the invocation's Status, or the API's error
InvocationResponses == {"Pending", "InProgress", "Delayed", "Success", "Failed",
                        "Cancelled", "TimedOut", "Cancelling",
                        "InvocationDoesNotExist", "error"}
\* seconds a GetCommandInvocation call takes: time.Since(start) is positive
WaiterLatencies == {1, 2}

(***************************************************************************)
(* Init: the run is about to call getInputs.                               *)
(***************************************************************************)
InitCollaborators ==
  /\ exitCode = -1 /\ err = NoErr /\ outputs = {} /\ warned = FALSE
  /\ commandMaxWaitTime = 0
  /\ gret = [c \in Callers |-> NoRet]
  /\ iamLog = <<>>
  /\ runCalls = 0 /\ startParams = NoParams /\ provisioned = {}
  /\ instanceId = "" /\ instanceState = "" /\ diCalls = 0 /\ diSleeps = 0 /\ firstRunning = 0
  /\ termCalls = 0
  /\ timeout = 0 /\ interval = 0 /\ regElapsed = 0 /\ diiCalls = 0
  /\ everOnline = FALSE /\ regRet = NoReg /\ lastInfo = <<>>
  /\ sendCalls = 0 /\ commandId = "" /\ wRemaining = 0 /\ wAttempt = 0
  /\ wElapsed = 0 /\ gciCalls = 0 /\ lastStatus = ""
  /\ failed = {} /\ dispatched = {} /\ getParams = NoGetParams
  /\ stopParams = <<>>

Init ==
  /\ InitCollaborators
  /\ pc = "getInputs"
  /\ gpc = [c \in Callers |-> "idle"]
  /\ grole = [c \in Callers |-> ""]
  /\ \/ in \in StartInputs /\ profiles \in ProfileLists
     \/ in \in CommandInputs \cup StopInputs \cup OtherInputs /\ profiles = <<>>

Finish(code, e) == exitCode' = code /\ err' = e /\ pc' = "exited"

Error(kind, arg) == [kind |-> kind, arg |-> arg]

(***************************************************************************)
(* getInputs, up to the function it dispatches to.                         *)
(***************************************************************************)
\* a switch with no default case: an unknown mode falls through to the last
\* case (a faulty variant)
InputErrorNoDefault(i, cfgOk) ==
  IF i.mode = "" THEN "MissingMode"
  ELSE IF ~Atoi(i.commandMaxWaitSecs).ok THEN "InvalidWait"
  ELSE IF ~cfgOk THEN "ConfigError"
  ELSE CASE i.mode = "start" ->
              IF i.ec2AmiId = "" \/ i.subnetId = "" \/ i.securityGroupId = ""
              THEN "MissingParameter" ELSE ""
         [] i.mode = "command" ->
              IF i.ec2InstanceId = "" \/ i.command = ""
              THEN "MissingParameter" ELSE ""
         [] OTHER ->
              IF i.ec2InstanceId = "" THEN "MissingParameter" ELSE ""

\* a start case that checks two of its three parameters (a faulty variant)
InputErrorTwoOfThree(i, cfgOk) ==
  IF i.mode = "" THEN "MissingMode"
  ELSE IF ~Atoi(i.commandMaxWaitSecs).ok THEN "InvalidWait"
  ELSE IF ~cfgOk THEN "ConfigError"
  ELSE CASE i.mode = "start" ->
              IF i.ec2AmiId = "" \/ i.subnetId = ""
              THEN "MissingParameter" ELSE ""
         [] i.mode = "command" ->
              IF i.ec2InstanceId = "" \/ i.command = ""
              THEN "MissingParameter" ELSE ""
         [] i.mode = "stop" ->
              IF i.ec2InstanceId = "" THEN "MissingParameter" ELSE ""
         [] OTHER -> "UnsupportedMode"

\* the error getInputs returns before any collaborator is called, "" if none
InputError(i, cfgOk) ==
  IF i.mode = "" THEN "MissingMode"
  ELSE IF ~Atoi(i.commandMaxWaitSecs).ok THEN "InvalidWait"
  ELSE IF ~cfgOk THEN "ConfigError"
  ELSE CASE i.mode = "start" ->
              IF i.ec2AmiId = "" \/ i.subnetId = "" \/ i.securityGroupId = ""
              THEN "MissingParameter" ELSE ""
         [] i.mode = "command" ->
              IF i.ec2InstanceId = "" \/ i.command = ""
              THEN "MissingParameter" ELSE ""
         [] i.mode = "stop" ->
              IF i.ec2InstanceId = "" THEN "MissingParameter" ELSE ""
         [] OTHER -> "UnsupportedMode"

GetInputs ==
  /\ pc = "getInputs"
  /\ \E cfgOk \in BOOLEAN :
       LET n == Atoi(in.commandMaxWaitSecs)
           parsed == in.mode # "" /\ n.ok
           eff == IF parsed THEN EffectiveMaxWait(n.val) ELSE 0
           e == InputError(in, cfgOk)
       IN /\ commandMaxWaitTime' = eff
          /\ warned' = (parsed /\ eff # n.val)
          /\ IF e # ""
             THEN /\ Finish(1, Error(e, IF e = "UnsupportedMode" THEN in.mode ELSE ""))
                  /\ UNCHANGED <<timeout, interval>>
             ELSE /\ pc' = CASE in.mode = "start" -> "CreateAndStartEC2Instance"
                             [] in.mode = "command" -> "IsSSMAgentRegistered"
                             [] OTHER -> "TerminateEC2Instance"
                  /\ timeout' = IF in.mode = "command" THEN RegistrationTimeout ELSE 0
                  /\ interval' = IF in.mode = "command" THEN RegistrationInterval ELSE 0
                  /\ UNCHANGED <<exitCode, err>>
  /\ UNCHANGED <<in, outputs, iamVars, ec2Vars, regElapsed, diiCalls,
                 everOnline, regRet, lastInfo, cmdVars, reqVars>>

(***************************************************************************)
(* CreateAndStartEC2Instance, lines 23-48: the request, the tags, the role.*)
(***************************************************************************)
CreateAndStart ==
  /\ pc = "CreateAndStartEC2Instance"
  /\ LET parsed == IF in.tagSpecifications # ""
                   THEN UnmarshalTags(in.tagSpecifications)
                   ELSE [ok |-> TRUE, tags |-> <<>>]
     IN IF ~parsed.ok
        THEN \* action.Fatalf: the process exits
             /\ Finish(1, Error("MalformedTagSpec", ""))
             /\ UNCHANGED <<startParams, gpc, grole>>
        ELSE /\ startParams' = [ImageId |-> in.ec2AmiId,
                                SubnetId |-> in.subnetId,
                                SecurityGroupId |-> in.securityGroupId,
                                \* getInputs lines 35-38: the default type
                                InstanceType |-> IF in.instanceType = ""
                                                 THEN "t2.micro"
                                                 ELSE in.instanceType,
                                IamInstanceProfile |-> "",
                                Tags |-> parsed.tags]
             /\ IF in.iamRoleName # ""
                THEN /\ pc' = "GetOrCreateInstanceProfile"
                     /\ gpc' = [gpc EXCEPT ![Main] = "list"]
                     /\ grole' = [grole EXCEPT ![Main] = in.iamRoleName]
                ELSE /\ pc' = "RunInstances"
                     /\ UNCHANGED <<gpc, grole>>
             /\ UNCHANGED <<exitCode, err>>
  /\ UNCHANGED <<in, outputs, warned, commandMaxWaitTime, profiles, gret,
                 iamLog, runCalls, provisioned, instanceId, instanceState, diCalls, diSleeps,
                 firstRunning, termCalls, ssmVars, reqVars>>

(***************************************************************************)
(* GetOrCreateInstanceProfile, for a caller c.  The IAM collaborator keeps *)
(* the profiles: a created profile is listed from then on, a profile name  *)
(* is created once, a profile takes one role.                              *)
(***************************************************************************)
\* a comparison of role names that never matches (a faulty variant)
HasNoRole(roles, roleName) == FALSE

\* lines 97-98: some role of the profile is named roleName
HasRole(roles, roleName) == \E i \in 1..Len(roles) : roles[i] = roleName

\* a lookup that compares the profile's name, not its roles (a faulty variant)
RECURSIVE FindProfileByName(_, _)
FindProfileByName(ps, roleName) ==
  IF ps = <<>> THEN [found |-> FALSE, name |-> ""]
  ELSE IF Head(ps).name = roleName
       THEN [found |-> TRUE, name |-> Head(ps).name]
       ELSE FindProfileByName(Tail(ps), roleName)

\* a lookup that never matches (a faulty variant)
FindProfileNever(ps, roleName) == [found |-> FALSE, name |-> ""]

\* lines 96-103: the first profile, in list order, with a role named roleName
RECURSIVE FindProfile(_, _)
FindProfile(ps, roleName) ==
  IF ps = <<>> THEN [found |-> FALSE, name |-> ""]
  ELSE IF HasRole(Head(ps).roles, roleName)
       THEN [found |-> TRUE, name |-> Head(ps).name]
       ELSE FindProfile(Tail(ps), roleName)

IamCall(c, op, profile, role) ==
  [caller |-> c, op |-> op, profile |-> profile, role |-> role]

ProfileExists(ps, name) == \E i \in 1..Len(ps) : ps[i].name = name

\* lines 91-103: ListInstanceProfiles and the scan of its response
ListProfiles(c) ==
  /\ gpc[c] = "list"
  /\ iamLog' = Append(iamLog, IamCall(c, "list", "", ""))
  /\ \E ok \in BOOLEAN :
       LET hit == FindProfile(profiles, grole[c])
       IN IF ~ok
          THEN /\ gpc' = [gpc EXCEPT ![c] = "returned"]
               /\ gret' = [gret EXCEPT ![c] = [name |-> "", err |-> "ListError"]]
               /\ failed' = failed \cup {"ListInstanceProfiles"}
          ELSE IF hit.found
          THEN /\ gpc' = [gpc EXCEPT ![c] = "returned"]
               /\ gret' = [gret EXCEPT ![c] = [name |-> hit.name, err |-> ""]]
               /\ UNCHANGED failed
          ELSE /\ gpc' = [gpc EXCEPT ![c] = "create"]
               /\ UNCHANGED <<gret, failed>>
  /\ UNCHANGED <<ctlVars, profiles, grole, ec2Vars, ssmVars, dispatched,
                 getParams, stopParams>>

\* lines 105-111: CreateInstanceProfile named iamRoleName
CreateProfile(c) ==
  /\ gpc[c] = "create"
  /\ iamLog' = Append(iamLog, IamCall(c, "create", grole[c], ""))
  /\ \E ok \in BOOLEAN :
       IF ok /\ ~ProfileExists(profiles, grole[c])
       THEN /\ profiles' = Append(profiles, [name |-> grole[c], roles |-> <<>>])
            /\ gpc' = [gpc EXCEPT ![c] = "attach"]
            /\ UNCHANGED <<gret, failed>>
       ELSE /\ gpc' = [gpc EXCEPT ![c] = "returned"]
            /\ gret' = [gret EXCEPT ![c] = [name |-> "", err |-> "CreateError"]]
            /\ failed' = failed \cup {"CreateInstanceProfile"}
            /\ UNCHANGED profiles
  /\ UNCHANGED <<ctlVars, grole, ec2Vars, ssmVars, dispatched, getParams,
                 stopParams>>

\* lines 113-122: AddRoleToInstanceProfile of role iamRoleName to the profile
AttachRole(c) ==
  /\ gpc[c] = "attach"
  /\ iamLog' = Append(iamLog, IamCall(c, "attach", grole[c], grole[c]))
  /\ \E ok \in BOOLEAN :
       LET free == {i \in 1..Len(profiles) :
                      profiles[i].name = grole[c] /\ profiles[i].roles = <<>>}
       IN IF ok /\ free # {}
          THEN /\ profiles' = [i \in 1..Len(profiles) |->
                                 IF i \in free
                                 THEN [profiles[i] EXCEPT !.roles = <<grole[c]>>]
                                 ELSE profiles[i]]
               /\ gret' = [gret EXCEPT ![c] = [name |-> grole[c], err |-> ""]]
               /\ UNCHANGED failed
          ELSE /\ gret' = [gret EXCEPT ![c] = [name |-> "", err |-> "AttachError"]]
               /\ failed' = failed \cup {"AddRoleToInstanceProfile"}
               /\ UNCHANGED profiles
  /\ gpc' = [gpc EXCEPT ![c] = "returned"]
  /\ UNCHANGED <<ctlVars, grole, ec2Vars, ssmVars, dispatched, getParams,
                 stopParams>>

(***************************************************************************)
(* CreateAndStartEC2Instance, lines 43-61, and getInputs, lines 71-75.     *)
(***************************************************************************)
\* an error of GetOrCreateInstanceProfile that is dropped (a faulty variant)
ProfileFailedIgnored(ret) == FALSE

\* line 44: if err != nil
ProfileFailed(ret) == ret.err # ""

\* lines 44-47: the profile GetOrCreateInstanceProfile returned
ProfileReturned ==
  /\ pc = "GetOrCreateInstanceProfile"
  /\ gpc[Main] = "returned"
  /\ IF ProfileFailed(gret[Main])
     THEN /\ Finish(1, Error("ProfileError", gret[Main].err))
          /\ UNCHANGED startParams
     ELSE /\ startParams' = [startParams EXCEPT
                               !.IamInstanceProfile = gret[Main].name]
          /\ pc' = "RunInstances"
          /\ UNCHANGED <<exitCode, err>>
  /\ UNCHANGED <<in, outputs, warned, commandMaxWaitTime, iamVars, runCalls,
                 provisioned, instanceId, instanceState, diCalls, diSleeps, firstRunning,
                 termCalls, ssmVars, reqVars>>

\* lines 50-54: RunInstances
RunInstances ==
  /\ pc = "RunInstances"
  /\ runCalls' = runCalls + 1
  /\ \E resp \in RunResponses :
       IF resp = ""
       THEN /\ Finish(1, Error("ProvisioningError", ""))
            /\ failed' = failed \cup {"RunInstances"}
            /\ UNCHANGED <<provisioned, instanceId>>
       ELSE /\ instanceId' = resp
            /\ provisioned' = provisioned \cup {resp}
            /\ pc' = "WaitForInstanceRunning"
            /\ UNCHANGED <<exitCode, err, failed>>
  /\ UNCHANGED <<in, outputs, warned, commandMaxWaitTime, iamVars, startParams,
                 instanceState, diCalls, diSleeps, firstRunning, termCalls,
                 ssmVars, dispatched, getParams, stopParams>>

\* line 79 with the sleep taken on every response (a faulty variant)
SleepsAlways(state) == TRUE

\* line 79: if instanceState != "running", sleep
Sleeps(state) == state # "running"

\* a loop that is left after its first iteration (a faulty variant)
KeepsPollingNever(state) == FALSE

\* line 72: for instanceState != "running"
KeepsPolling(state) == state # "running"

Bump(n) == Min(n + 1, MaxPolls)

\* an id that is emitted whatever the state described (a faulty variant)
LoopOrReturnEager(state) ==
  /\ outputs' = outputs \cup {<<"ec2-instance-id", instanceId>>}
  /\ IF KeepsPolling(state)
     THEN pc' = "WaitForInstanceRunning" /\ UNCHANGED <<exitCode, err>>
     ELSE Finish(0, NoErr)

\* line 72 after an iteration: poll again, or return nil; then line 60 and
\* getInputs lines 74-75 follow
LoopOrReturn(state) ==
  IF KeepsPolling(state)
  THEN /\ pc' = "WaitForInstanceRunning"
       /\ UNCHANGED <<exitCode, err, outputs>>
  ELSE /\ outputs' = outputs \cup {<<"ec2-instance-id", instanceId>>}
       /\ Finish(0, NoErr)

\* a describe error that is taken for a state (a faulty variant)
DescribeFailedIgnored(resp) == FALSE

\* line 74: if err != nil
DescribeFailed(resp) == resp = "error"

\* lines 73-79: one DescribeInstances call of WaitForInstanceRunning
WaitForInstanceRunning ==
  /\ pc = "WaitForInstanceRunning"
  /\ diCalls' = Bump(diCalls)
  /\ \E resp \in InstanceStates \cup {"error"} :
       /\ failed' = IF resp = "error"
                    THEN failed \cup {"DescribeInstances"} ELSE failed
       /\ IF DescribeFailed(resp)
          THEN /\ Finish(1, Error("DescribeError", instanceId))
               /\ UNCHANGED <<outputs, firstRunning, instanceState>>
          ELSE
            /\ instanceState' = resp
            /\ firstRunning' = IF resp = "running" /\ firstRunning = 0
                               THEN diCalls' ELSE firstRunning
            /\ IF Sleeps(resp)
               THEN /\ pc' = "Sleep"
                    /\ UNCHANGED <<exitCode, err, outputs>>
               ELSE LoopOrReturn(resp)
  /\ UNCHANGED <<in, warned, commandMaxWaitTime, iamVars, runCalls, startParams,
                 provisioned, instanceId, diSleeps, termCalls, ssmVars,
                 dispatched, getParams, stopParams>>

\* line 80: time.Sleep(5 * time.Second), then the loop's condition
Sleep ==
  /\ pc = "Sleep"
  /\ diSleeps' = Bump(diSleeps)
  /\ LoopOrReturn(instanceState)
  /\ UNCHANGED <<in, warned, commandMaxWaitTime, iamVars, runCalls, startParams,
                 provisioned, instanceId, instanceState, diCalls, firstRunning,
                 termCalls, ssmVars, reqVars>>

\* a request that names no instance (a faulty variant)
StopParamsEmpty(ec2InstanceId) == <<>>

\* lines 222-224: the request of TerminateEC2Instance
StopParams(ec2InstanceId) == <<ec2InstanceId>>

\* TerminateEC2Instance, and getInputs lines 92-95
TerminateEC2Instance ==
  /\ pc = "TerminateEC2Instance"
  /\ stopParams' = StopParams(in.ec2InstanceId)
  /\ termCalls' = termCalls + 1
  /\ \E ok \in BOOLEAN :
       IF ok THEN Finish(0, NoErr) /\ UNCHANGED failed
       ELSE /\ Finish(1, Error("TerminationError", in.ec2InstanceId))
            /\ failed' = failed \cup {"TerminateInstances"}
  /\ UNCHANGED <<in, outputs, warned, commandMaxWaitTime, iamVars, runCalls,
                 startParams, provisioned, instanceId, instanceState, diCalls, diSleeps,
                 firstRunning, ssmVars, dispatched, getParams>>

(***************************************************************************)
(* IsSSMAgentRegistered.  regElapsed is time.Now() less the time endTime   *)
(* was computed at: a describe call takes its latency, a sleep takes       *)
(* interval seconds.                                                       *)
(***************************************************************************)
\* a match on the ping status alone (a faulty variant)
RECURSIVE AnyAgentOnline(_, _)
AnyAgentOnline(list, ec2InstanceId) ==
  IF list = <<>> THEN FALSE
  ELSE IF Head(list).PingStatus = "Online" THEN TRUE
       ELSE AnyAgentOnline(Tail(list), ec2InstanceId)

\* lines 204-211: the scan of InstanceInformationList
RECURSIVE AgentOnline(_, _)
AgentOnline(list, ec2InstanceId) ==
  IF list = <<>> THEN FALSE
  ELSE IF Head(list).InstanceId = ec2InstanceId /\ Head(list).PingStatus = "Online"
       THEN TRUE
       ELSE AgentOnline(Tail(list), ec2InstanceId)

\* a deadline that still admits the instant endTime (a faulty variant)
NotAfterEndTime(elapsed, limit) == elapsed <= limit

\* line 198: time.Now().Before(endTime)
BeforeEndTime(elapsed, limit) == elapsed < limit

\* lines 198-214: one iteration of the loop
IsSSMAgentRegistered ==
  /\ pc = "IsSSMAgentRegistered"
  /\ BeforeEndTime(regElapsed, timeout)
  /\ diiCalls' = diiCalls + 1
  /\ \E lat \in DescribeLatencies, ok \in BOOLEAN, resp \in InfoResponses :
       IF ~ok
       THEN /\ regRet' = [set |-> TRUE, reg |-> FALSE, err |-> TRUE]
            /\ regElapsed' = regElapsed + lat
            /\ pc' = "ExecuteCommandOnEC2Instance"
            /\ failed' = failed \cup {"DescribeInstanceInformation"}
            /\ UNCHANGED <<everOnline, lastInfo>>
       ELSE /\ UNCHANGED failed
            /\ everOnline' =
                 (everOnline \/ \E i \in 1..Len(resp) :
                                  /\ resp[i].InstanceId = in.ec2InstanceId
                                  /\ resp[i].PingStatus = "Online")
            /\ IF AgentOnline(resp, in.ec2InstanceId)
               THEN /\ regRet' = [set |-> TRUE, reg |-> TRUE, err |-> FALSE]
                    /\ lastInfo' = resp
                    /\ regElapsed' = regElapsed + lat
                    /\ pc' = "ExecuteCommandOnEC2Instance"
               ELSE /\ regElapsed' = regElapsed + lat + interval
                    /\ UNCHANGED <<regRet, lastInfo, pc>>
  /\ UNCHANGED <<in, exitCode, err, outputs, warned, commandMaxWaitTime, iamVars,
                 ec2Vars, timeout, interval, cmdVars, dispatched, getParams,
                 stopParams>>

\* lines 216-217: the loop ended on the deadline
RegistrationTimedOut ==
  /\ pc = "IsSSMAgentRegistered"
  /\ ~BeforeEndTime(regElapsed, timeout)
  /\ regRet' = [set |-> TRUE, reg |-> FALSE, err |-> FALSE]
  /\ pc' = "ExecuteCommandOnEC2Instance"
  /\ UNCHANGED <<in, exitCode, err, outputs, warned, commandMaxWaitTime, iamVars,
                 ec2Vars, timeout, interval, regElapsed, diiCalls, everOnline,
                 lastInfo, cmdVars, reqVars>>

(***************************************************************************)
(* ExecuteCommandOnEC2Instance, lines 131-155: the result of the           *)
(* registration wait, SendCommand, and the entry of the waiter.            *)
(***************************************************************************)
\* a check that lets an unregistered agent through (a faulty variant)
NotRegisteredIgnored(ret) == FALSE

\* line 134: if !reg
NotRegistered(ret) == ~ret.reg

\* a request that names the command alone (a faulty variant)
GetCommandParamsNoInstance(ec2InstanceId, cmdId) ==
  [CommandId |-> cmdId, InstanceId |-> ""]

\* lines 175-178: the request the waiter polls with
GetCommandParams(ec2InstanceId, cmdId) ==
  [CommandId |-> cmdId, InstanceId |-> ec2InstanceId]

\* an error of IsSSMAgentRegistered that is dropped (a faulty variant)
RegistrationFailedIgnored(ret) == FALSE

\* line 131: if err != nil
RegistrationFailed(ret) == ret.err

SendCommand ==
  /\ pc = "ExecuteCommandOnEC2Instance"
  /\ IF RegistrationFailed(regRet)
     THEN /\ Finish(1, Error("DescribeInformationError", ""))
          /\ UNCHANGED <<cmdVars, failed, dispatched, getParams>>
     ELSE IF NotRegistered(regRet)
     THEN /\ Finish(1, Error("AgentNotRegistered", in.ec2InstanceId))
          /\ UNCHANGED <<cmdVars, failed, dispatched, getParams>>
     ELSE /\ sendCalls' = sendCalls + 1
          /\ \E resp \in SendResponses :
               IF resp = ""
               THEN /\ Finish(1, Error("DispatchError", in.ec2InstanceId))
                    /\ failed' = failed \cup {"SendCommand"}
                    /\ UNCHANGED <<commandId, wRemaining, dispatched, getParams>>
               ELSE /\ commandId' = resp
                    /\ dispatched' = dispatched \cup {resp}
                    /\ getParams' = GetCommandParams(in.ec2InstanceId, resp)
                    /\ UNCHANGED failed
                    /\ wRemaining' = commandMaxWaitTime
                    /\ pc' = "GetCommandInvocationDetails"
                    /\ UNCHANGED <<exitCode, err>>
          /\ UNCHANGED <<wAttempt, wElapsed, gciCalls, lastStatus>>
  \* the frame of IsSSMAgentRegistered is gone
  /\ regElapsed' = 0
  /\ lastInfo' = <<>>
  /\ UNCHANGED <<in, outputs, warned, commandMaxWaitTime, iamVars, ec2Vars,
                 timeout, interval, diiCalls, everOnline, regRet, stopParams>>

(***************************************************************************)
(* GetCommandInvocationDetails: ssm.NewCommandExecutedWaiter(ssmClient)    *)
(* .WaitForOutput(ctx, params, maxWaitTime seconds).  The waiter polls     *)
(* GetCommandInvocation: Pending, InProgress, Delayed and the error        *)
(* InvocationDoesNotExist are retried, Success ends the wait with the      *)
(* output, Cancelled, TimedOut, Failed and Cancelling end it with the      *)
(* error "waiter state transitioned to Failure", any other error ends it   *)
(* with that error.  remainingTime starts at maxWaitTime, loses the time   *)
(* each call took and each delay slept; the wait ends with "exceeded max   *)
(* wait time" once remainingTime is under MinDelay.                        *)
(***************************************************************************)
Retryable(resp) ==
  CASE resp \in {"Pending", "InProgress", "Delayed", "InvocationDoesNotExist"} -> "retry"
    [] resp = "Success" -> "success"
    [] resp \in {"Cancelled", "TimedOut", "Failed", "Cancelling"} -> "failure"
    [] OTHER -> "error"

RECURSIVE Pow2(_)
Pow2(n) == IF n <= 0 THEN 1 ELSE 2 * Pow2(n - 1)

\* the exponential delay of an attempt before jitter, capped at MaxDelay
BaseDelay(attempt) ==
  IF attempt > 5 THEN WaiterMaxDelay ELSE WaiterMinDelay * Pow2(attempt - 1)

\* the values the jitter draws from: [0, delay - MinDelay)
Jitters(attempt) ==
  IF BaseDelay(attempt) = WaiterMinDelay THEN {0}
  ELSE 0..(BaseDelay(attempt) - WaiterMinDelay - 1)

\* smithy waiter ComputeDelay: jittered, and cut so that MinDelay remains
ComputeDelay(attempt, remaining, jitter) ==
  LET delay == IF BaseDelay(attempt) = WaiterMinDelay THEN WaiterMinDelay
               ELSE WaiterMinDelay + jitter
  IN IF remaining - delay <= WaiterMinDelay THEN remaining - WaiterMinDelay
     ELSE delay

\* a waiter that gives up only at zero (a faulty variant)
OutOfTimeAtZero(remaining) == remaining <= 0

\* if remainingTime < options.MinDelay || remainingTime <= 0 { break }
OutOfTime(remaining) == remaining < WaiterMinDelay \/ remaining <= 0

\* one attempt of the waiter; on Success, lines 157-168 and getInputs 85-86
GetCommandInvocationDetails ==
  /\ pc = "GetCommandInvocationDetails"
  /\ wAttempt' = wAttempt + 1
  /\ gciCalls' = gciCalls + 1
  /\ \E resp \in InvocationResponses, lat \in WaiterLatencies,
        jitter \in Jitters(wAttempt + 1) :
       LET kind == Retryable(resp)
           left == wRemaining - lat
           delay == ComputeDelay(wAttempt + 1, left, jitter)
       IN /\ lastStatus' = resp
          /\ failed' = IF kind = "error"
                       THEN failed \cup {"GetCommandInvocation"} ELSE failed
          /\ CASE kind = "success" ->
                    /\ outputs' = outputs \cup {<<"command-id", commandId>>}
                    /\ Finish(0, NoErr)
                    /\ wElapsed' = wElapsed + lat
                    /\ UNCHANGED wRemaining
               [] kind = "failure" ->
                    /\ Finish(1, Error("WaiterFailure", resp))
                    /\ wElapsed' = wElapsed + lat
                    /\ UNCHANGED <<outputs, wRemaining>>
               [] kind = "error" ->
                    /\ Finish(1, Error("InvocationError", ""))
                    /\ wElapsed' = wElapsed + lat
                    /\ UNCHANGED <<outputs, wRemaining>>
               [] OTHER ->
                    IF OutOfTime(left)
                    THEN /\ Finish(1, Error("Timeout", ""))
                         /\ wRemaining' = left
                         /\ wElapsed' = wElapsed + lat
                         /\ UNCHANGED outputs
                    ELSE /\ wRemaining' = left - delay
                         \* a sleep of a negative delay returns at once
                         /\ wElapsed' = wElapsed + lat + Max(delay, 0)
                         /\ UNCHANGED <<pc, exitCode, err, outputs>>
  /\ UNCHANGED <<in, warned, commandMaxWaitTime, iamVars, ec2Vars, regVars,
                 sendCalls, commandId, dispatched, getParams, stopParams>>

(***************************************************************************)
(* The run.                                                                *)
(***************************************************************************)
Next ==
  \/ GetInputs
  \/ CreateAndStart
  \/ ListProfiles(Main)
  \/ CreateProfile(Main)
  \/ AttachRole(Main)
  \/ ProfileReturned
  \/ RunInstances
  \/ WaitForInstanceRunning
  \/ Sleep
  \/ TerminateEC2Instance
  \/ IsSSMAgentRegistered
  \/ RegistrationTimedOut
  \/ SendCommand
  \/ GetCommandInvocationDetails

Spec == Init /\ [][Next]_vars

\* the run is one thread: it takes its next step whenever it has one
FairSpec == Spec /\ WF_vars(Next)

(***************************************************************************)
(* GetOrCreateInstanceProfile called on its own, by two callers against    *)
(* the same IAM collaborator: one after the other, or interleaved.         *)
(***************************************************************************)
NoInputs ==
  [mode |-> "", ec2AmiId |-> "", subnetId |-> "", securityGroupId |-> "",
   iamRoleName |-> "", instanceType |-> "", tagSpecifications |-> "",
   ec2InstanceId |-> "", command |-> "", commandMaxWaitSecs |-> <<>>]

InitIAM ==
  /\ InitCollaborators
  /\ in = NoInputs
  /\ pc = "none"
  /\ gpc = [c \in Callers |-> "list"]
  /\ grole \in [Callers -> {"r1", "r0"}]
  /\ profiles \in ProfileLists

NextIAM ==
  \E c \in Callers : ListProfiles(c) \/ CreateProfile(c) \/ AttachRole(c)

SpecIAM == InitIAM /\ [][NextIAM]_vars

(***************************************************************************)
(* The registration wait: as a command run enters it, with the 60 s and    *)
(* 5 s of ExecuteCommandOnEC2Instance, and called on its own as the test   *)
(* calls it, up to its return.                                             *)
(***************************************************************************)
\* the <<timeout, interval>> arguments of a call made on its own
DirectCalls ==
  {<<0, 0>>, <<0, RegistrationInterval>>,
   <<RegistrationTimeout, RegistrationInterval>>}

InitReg ==
  /\ exitCode = -1 /\ err = NoErr /\ outputs = {} /\ warned = FALSE
  /\ commandMaxWaitTime = 0
  /\ profiles = <<>>
  /\ gpc = [c \in Callers |-> "idle"]
  /\ grole = [c \in Callers |-> ""]
  /\ gret = [c \in Callers |-> NoRet]
  /\ iamLog = <<>>
  /\ runCalls = 0 /\ startParams = NoParams /\ provisioned = {}
  /\ instanceId = "" /\ instanceState = "" /\ diCalls = 0 /\ diSleeps = 0
  /\ firstRunning = 0 /\ termCalls = 0
  /\ regElapsed = 0 /\ diiCalls = 0
  /\ everOnline = FALSE /\ regRet = NoReg /\ lastInfo = <<>>
  /\ sendCalls = 0 /\ commandId = "" /\ wRemaining = 0 /\ wAttempt = 0
  /\ wElapsed = 0 /\ gciCalls = 0 /\ lastStatus = ""
  /\ failed = {} /\ dispatched = {} /\ getParams = NoGetParams
  /\ stopParams = <<>>
  /\ \/ /\ in \in CommandInputs
        /\ pc = "getInputs"
        /\ timeout = 0 /\ interval = 0
     \/ /\ in \in {[NoInputs EXCEPT !.ec2InstanceId = id] : id \in {"i-1", "i-2"}}
        /\ pc = "IsSSMAgentRegistered"
        /\ \E d \in DirectCalls : timeout = d[1] /\ interval = d[2]

NextReg ==
  \/ GetInputs
  \/ IsSSMAgentRegistered
  \/ RegistrationTimedOut

\* the call is one thread: it takes its next step whenever it has one
SpecReg == InitReg /\ [][NextReg]_vars /\ WF_vars(NextReg)

(***************************************************************************)
(* Properties.                                                             *)
(***************************************************************************)
\* the entries of a DescribeInstanceInformation response that count: the
\* target's, with ping status Online
TargetOnline(list) ==
  \E i \in 1..Len(list) :
    list[i].InstanceId = in.ec2InstanceId /\ list[i].PingStatus = "Online"

\* C1: if no DescribeInstanceInformation response held an Online entry of the
\* target instance, SendCommand (and GetCommandInvocation) is never called, no
\* command id exists, and the command run that got past the registration wait
\* ends with an error (AgentNotRegistered when no describe call failed) and no
\* output.
C1_NoDispatchUnlessRegistered ==
  /\ ~everOnline => sendCalls = 0 /\ gciCalls = 0 /\ commandId = ""
  /\ (pc = "exited" /\ regRet.set /\ ~everOnline) =>
       /\ exitCode = 1
       /\ outputs = {}
       /\ err.kind = IF regRet.err THEN "DescribeInformationError"
                      ELSE "AgentNotRegistered"

C1_Witness ==
  /\ pc = "exited" /\ regRet.set /\ ~regRet.err /\ ~everOnline
  /\ err.kind = "AgentNotRegistered" /\ diiCalls > 1 /\ sendCalls = 0

\* C3: once a DescribeInstances response reports running, WaitForInstanceRunning
\* has returned with no error: the calls made number the index of that first
\* running response, no sleep followed it (one sleep per earlier response), and
\* the run went on to emit the instance id.
C3_ReturnsOnFirstRunning ==
  firstRunning # 0 =>
    /\ diCalls = firstRunning
    /\ diCalls < MaxPolls => diSleeps = diCalls - 1
    /\ pc = "exited" /\ exitCode = 0 /\ err = NoErr
    /\ outputs = {<<"ec2-instance-id", instanceId>>}

C3_Witness ==
  firstRunning = 2 /\ diCalls = 2 /\ diSleeps = 1 /\ pc = "exited" /\ exitCode = 0

\* C4: IsSSMAgentRegistered returns true only on a response that holds the
\* target's Online entry, and has returned true (so describes no more) in every
\* state after such a response was received; it returns false with no error
\* only when the timeout has elapsed and no response held such an entry.
C4_RegisteredIffTargetOnline ==
  /\ everOnline => regRet.set /\ regRet.reg /\ ~regRet.err
  /\ (regRet.set /\ regRet.reg) => everOnline /\ pc # "IsSSMAgentRegistered"
  /\ (pc = "ExecuteCommandOnEC2Instance" /\ regRet.reg) => TargetOnline(lastInfo)
  /\ (pc = "ExecuteCommandOnEC2Instance" /\ ~regRet.reg /\ ~regRet.err) =>
       ~everOnline /\ regElapsed >= timeout
  /\ pc = "IsSSMAgentRegistered" => ~regRet.set

C4_Witness ==
  /\ pc = "ExecuteCommandOnEC2Instance" /\ regRet.set /\ ~regRet.reg /\ ~regRet.err
  /\ diiCalls = 12 /\ regElapsed >= RegistrationTimeout

\* C9: for every configured command-max-wait-secs n, the effective wait of the
\* run, and the remaining time the command-completion wait starts with, is 6
\* when n <= 5 and n when n >= 6.
C9_WaitFloor ==
  \A n \in (0 - NegCfgWait)..MaxCfgWait :
    (in.commandMaxWaitSecs = IntText(n) /\ in.mode # "" /\ pc # "getInputs") =>
      LET want == IF n <= 5 THEN 6 ELSE n
      IN /\ commandMaxWaitTime = want
         /\ warned = (n <= 5)
         /\ (pc = "GetCommandInvocationDetails" /\ wAttempt = 0) => wRemaining = want

C9_Witness ==
  /\ in.commandMaxWaitSecs = <<"5">> /\ pc = "GetCommandInvocationDetails"
  /\ wAttempt = 0 /\ wRemaining = 6 /\ warned

\* C10: in start mode with tag-specifications that do not parse, RunInstances
\* and the IAM calls are never issued, no instance exists, no output is set,
\* and the run ends with exit code 1.
C10_MalformedTagsBeforeProvisioning ==
  (in.mode = "start" /\ in.tagSpecifications \in {TagsTruncated, TagsNotAnArray}) =>
    /\ runCalls = 0 /\ iamLog = <<>> /\ provisioned = {} /\ diCalls = 0
    /\ outputs = {}
    /\ pc \in {"getInputs", "CreateAndStartEC2Instance", "exited"}
    /\ pc = "exited" =>
         /\ exitCode = 1
         /\ err.kind \in {"MalformedTagSpec", "MissingParameter", "InvalidWait",
                          "ConfigError"}

C10_Witness ==
  /\ pc = "exited" /\ err.kind = "MalformedTagSpec" /\ in.iamRoleName = "r1"
  /\ in.tagSpecifications = TagsNotAnArray /\ runCalls = 0

\* C2: WaitForInstanceRunning ends: a run that is polling the instance's state
\* eventually stops polling (on a deadline, when the state never becomes
\* running and no describe call fails).
C2_WaitRunningEnds ==
  (pc = "WaitForInstanceRunning") ~> (pc \notin {"WaitForInstanceRunning", "Sleep"})

\* C5: a command run whose invocation reached the terminal status Failed ends
\* with no error and the command id as its output.
C5_FailedCommandIsNotAnError ==
  (pc = "exited" /\ lastStatus = "Failed") =>
    /\ exitCode = 0
    /\ err = NoErr
    /\ outputs = {<<"command-id", commandId>>}

\* C6: every attempt of the command-completion wait leaves the time spent in
\* the wait within commandMaxWaitTime and either ends the wait or leaves less
\* remaining time than before, never under MinDelay (so the attempts are
\* bounded); the wait that ends on a status still to be retried ends with the
\* Timeout error, exit code 1 and no output.
C6_CommandWaitBounded ==
  [][pc = "GetCommandInvocationDetails" =>
       /\ wElapsed' <= commandMaxWaitTime
       /\ gciCalls' = gciCalls + 1
       /\ pc' = "GetCommandInvocationDetails" =>
            /\ wRemaining' < wRemaining
            /\ wRemaining' >= WaiterMinDelay
            /\ wElapsed' + wRemaining' = commandMaxWaitTime
       /\ pc' # "GetCommandInvocationDetails" =>
            /\ pc' = "exited"
            /\ lastStatus' \in {"Pending", "InProgress", "Delayed",
                                "InvocationDoesNotExist"} =>
                 /\ err'.kind = "Timeout" /\ exitCode' = 1 /\ outputs' = {}
                 /\ wRemaining' < WaiterMinDelay
     ]_vars

C6_Witness ==
  /\ pc = "exited" /\ err.kind = "Timeout" /\ lastStatus = "InProgress"
  /\ gciCalls >= 3 /\ sendCalls = 1 /\ commandMaxWaitTime = 18

\* the callers' IAM calls, in the order issued
CallsOf(c) == SelectSeq(iamLog, LAMBDA e : e.caller = c)

OpsOf(c) == [i \in 1..Len(CallsOf(c)) |-> CallsOf(c)[i].op]

\* the places in the list of the profiles that hold a role named r
Matching(r) ==
  {i \in 1..Len(profiles) :
     \E j \in 1..Len(profiles[i].roles) : profiles[i].roles[j] = r}

\* C8: GetOrCreateInstanceProfile issues list, then create, then attach, in
\* that order and each at most once.  When it returns with no error, either
\* it issued the list call alone, some listed profile holds the role, and the
\* name returned is that of the first such profile in list order; or it
\* issued create of a profile named roleName and then attach of role roleName
\* to that profile, no profile listed before held the role, and the name
\* returned is roleName.
C8_GetOrCreate ==
  LET r == grole[Main]
      calls == CallsOf(Main)
      ops == OpsOf(Main)
      m == Matching(r)
  IN /\ \E n \in 0..3 : ops = SubSeq(<<"list", "create", "attach">>, 1, n)
     /\ (gpc[Main] = "returned" /\ gret[Main].err = "") =>
          \/ /\ ops = <<"list">>
             /\ m # {}
             /\ gret[Main].name = profiles[CHOOSE i \in m : \A j \in m : i <= j].name
          \/ /\ ops = <<"list", "create", "attach">>
             /\ calls[2].profile = r
             /\ calls[3].profile = r /\ calls[3].role = r
             /\ m = {Len(profiles)}
             /\ profiles[Len(profiles)].name = r
             /\ gret[Main].name = r

C8_Witness ==
  /\ gpc[Main] = "returned" /\ gret[Main].err = "" /\ OpsOf(Main) = <<"list">>
  /\ Matching(grole[Main]) = {1, 2}
  /\ gret[Main].name = "p0" /\ profiles[1].name = "p0"

\* caller a's call was over before caller b's began
InSequence(a, b) ==
  /\ gpc[a] = "returned"
  /\ \E k \in 1..Len(iamLog) :
       /\ \A i \in 1..Len(iamLog) : iamLog[i].caller = a => i < k
       /\ \A i \in 1..Len(iamLog) : iamLog[i].caller = b => i >= k
       /\ iamLog[k].caller = b

CountOps(op) == Cardinality({i \in 1..Len(iamLog) : iamLog[i].op = op})

\* C7: when GetOrCreateInstanceProfile(roleName) has returned a profile and a
\* second call for the same role, begun after it, has its list call answered,
\* the second call returns the same profile name with no error and issues no
\* create and no attach: create and attach are each issued once over the two
\* calls when the first call created the profile, and never otherwise.
C7_SecondCallReuses ==
  \A a, b \in Callers :
    (/\ a # b /\ grole[a] = grole[b]
     /\ InSequence(a, b)
     /\ gret[a].err = ""
     /\ gpc[b] = "returned" /\ gret[b].err # "ListError") =>
      /\ gret[b].err = ""
      /\ gret[b].name = gret[a].name
      /\ OpsOf(b) = <<"list">>
      /\ CountOps("create") = CountOps("attach")
      /\ CountOps("create") = IF OpsOf(a) = <<"list">> THEN 0 ELSE 1

C7_Witness ==
  /\ InSequence(1, 2) /\ grole[1] = grole[2]
  /\ gpc[2] = "returned" /\ gret[1].err = "" /\ gret[2] = gret[1]
  /\ OpsOf(1) = <<"list", "create", "attach">> /\ OpsOf(2) = <<"list">>

\* no collaborator has been called
NoCollaboratorCall ==
  /\ iamLog = <<>> /\ runCalls = 0 /\ diCalls = 0 /\ termCalls = 0
  /\ diiCalls = 0 /\ sendCalls = 0 /\ gciCalls = 0

SupportedModes == {"start", "command", "stop"}

\* C11 as stated: every run with a non-empty mode other than start, command
\* and stop ends with the UnsupportedMode error naming the mode, and calls no
\* collaborator.
C11_UnsupportedModeAlways ==
  (in.mode \notin SupportedModes \cup {""} /\ pc = "exited") =>
    /\ err = Error("UnsupportedMode", in.mode)
    /\ exitCode = 1
    /\ NoCollaboratorCall

\* C11: a run with a non-empty mode other than start, command and stop never
\* leaves getInputs but to exit with code 1, calls no collaborator and sets no
\* output; its error is UnsupportedMode naming the mode when
\* command-max-wait-secs parses as an integer and the AWS configuration
\* loaded, and the error of that earlier step otherwise.
C11_UnsupportedMode ==
  in.mode \notin SupportedModes \cup {""} =>
    /\ pc \in {"getInputs", "exited"}
    /\ NoCollaboratorCall /\ outputs = {}
    /\ pc = "exited" =>
         /\ exitCode = 1
         /\ in.commandMaxWaitSecs \in BadWaitTexts => err.kind = "InvalidWait"
         /\ in.commandMaxWaitSecs = DefaultWaitText =>
              \/ err.kind = "ConfigError"
              \/ err = Error("UnsupportedMode", in.mode)

C11_Witness ==
  /\ pc = "exited" /\ in.mode = "bogus" /\ in.ec2InstanceId = "i-1"
  /\ err = Error("UnsupportedMode", "bogus") /\ exitCode = 1

\* a parameter the mode requires is empty
MissingRequired ==
  \/ in.mode = "start" /\ "" \in {in.ec2AmiId, in.subnetId, in.securityGroupId}
  \/ in.mode = "command" /\ "" \in {in.ec2InstanceId, in.command}
  \/ in.mode = "stop" /\ in.ec2InstanceId = ""

\* C12 as stated: every run in which a parameter its mode requires is empty
\* ends with the MissingParameter error, calls no collaborator and sets no
\* output.
C12_MissingParameterAlways ==
  (MissingRequired /\ pc = "exited") =>
    /\ err.kind = "MissingParameter"
    /\ NoCollaboratorCall /\ outputs = {}

\* C12: a run in which a parameter its mode requires is empty never leaves
\* getInputs but to exit with code 1, calls no collaborator and sets no
\* output; its error is MissingParameter when command-max-wait-secs parses as
\* an integer and the AWS configuration loaded, and the error of that earlier
\* step otherwise.
C12_MissingParameter ==
  MissingRequired =>
    /\ pc \in {"getInputs", "exited"}
    /\ NoCollaboratorCall /\ outputs = {}
    /\ pc = "exited" =>
         /\ exitCode = 1
         /\ in.commandMaxWaitSecs \in BadWaitTexts => err.kind = "InvalidWait"
         /\ in.commandMaxWaitSecs \notin BadWaitTexts =>
              err.kind \in {"ConfigError", "MissingParameter"}

C12_Witness ==
  /\ pc = "exited" /\ err.kind = "MissingParameter" /\ exitCode = 1
  /\ in.mode = "start" /\ in.ec2AmiId = "ami-1" /\ in.subnetId = "subnet-1"
  /\ in.securityGroupId = "" /\ in.iamRoleName = "r1"

\* the run is past the RunInstances call of CreateAndStartEC2Instance
Provisioning == pc \in {"WaitForInstanceRunning", "Sleep"}

\* C13: in a start run with image, subnet and security group given and no
\* role, no IAM call is ever made; RunInstances is called once, with the
\* request built from the inputs and no profile, before any DescribeInstances
\* call and never again; the run emits an id only after a DescribeInstances
\* response reported running, having polled up to that response, and the id
\* emitted is the one RunInstances returned.
C13_StartWithoutRole ==
  (/\ in.mode = "start" /\ in.iamRoleName = ""
   /\ "" \notin {in.ec2AmiId, in.subnetId, in.securityGroupId}) =>
    /\ iamLog = <<>> /\ gpc[Main] = "idle"
    /\ runCalls <= 1
    /\ pc = "RunInstances" =>
         /\ runCalls = 0
         /\ startParams.ImageId = in.ec2AmiId
         /\ startParams.SubnetId = in.subnetId
         /\ startParams.SecurityGroupId = in.securityGroupId
         /\ startParams.IamInstanceProfile = ""
    /\ (Provisioning \/ diCalls > 0) =>
         runCalls = 1 /\ provisioned = {instanceId}
    /\ (pc = "exited" /\ exitCode = 0) =>
         /\ runCalls = 1
         /\ instanceState = "running"
         /\ firstRunning = diCalls
         /\ provisioned = {instanceId}
         /\ outputs = {<<"ec2-instance-id", instanceId>>}
    /\ outputs # {} => pc = "exited" /\ exitCode = 0

C13_Witness ==
  /\ in.mode = "start" /\ in.iamRoleName = "" /\ pc = "exited" /\ exitCode = 0
  /\ runCalls = 1 /\ diCalls = 3 /\ firstRunning = 3 /\ iamLog = <<>>
  /\ outputs = {<<"ec2-instance-id", "i-2">>} /\ provisioned = {"i-2"}

\* C14: in a command run SendCommand is called at most once, only after a
\* DescribeInstanceInformation response held the target's Online entry, and
\* before any GetCommandInvocation call; every GetCommandInvocation call asks
\* for the command id SendCommand returned and for the target instance; the
\* command id the run emits is the one SendCommand returned.  With the agent
\* online at the first check, one DescribeInstanceInformation call precedes
\* the dispatch.
C14_DispatchOnceThenFetch ==
  in.mode = "command" =>
    /\ sendCalls <= 1
    /\ sendCalls = 1 => everOnline /\ regRet.reg /\ diiCalls >= 1
    /\ (everOnline /\ pc \notin {"IsSSMAgentRegistered",
                                 "ExecuteCommandOnEC2Instance"}) => sendCalls = 1
    /\ pc = "ExecuteCommandOnEC2Instance" => sendCalls = 0 /\ gciCalls = 0
    /\ (pc = "GetCommandInvocationDetails" \/ gciCalls > 0) =>
         /\ sendCalls = 1
         /\ dispatched = {commandId} /\ commandId # ""
         /\ getParams = [CommandId |-> commandId, InstanceId |-> in.ec2InstanceId]
    /\ (pc = "GetCommandInvocationDetails" /\ wAttempt = 0) => gciCalls = 0
    /\ outputs # {} =>
         /\ outputs = {<<"command-id", commandId>>}
         /\ dispatched = {commandId}
         /\ gciCalls >= 1

C14_Witness ==
  /\ in.mode = "command" /\ pc = "exited" /\ exitCode = 0
  /\ diiCalls = 1 /\ everOnline /\ sendCalls = 1 /\ gciCalls = 2
  /\ dispatched = {"c-2"} /\ outputs = {<<"command-id", "c-2">>}
  /\ getParams = [CommandId |-> "c-2", InstanceId |-> "i-1"]

\* C15: a stop run never calls DescribeInstances or any other collaborator
\* but TerminateInstances, which it calls at most once; the step that calls
\* it asks for the run's instance and ends the run: with no error and no
\* output when the API answered, with the TerminationError naming the
\* instance when the API rejected the call, and with no second call.
C15_StopTerminatesOnce ==
  /\ [](in.mode = "stop" =>
          /\ termCalls <= 1
          /\ diCalls = 0 /\ diiCalls = 0 /\ runCalls = 0 /\ sendCalls = 0
          /\ gciCalls = 0 /\ iamLog = <<>> /\ outputs = {}
          /\ termCalls = 1 =>
               /\ pc = "exited"
               /\ stopParams = <<in.ec2InstanceId>> /\ in.ec2InstanceId # ""
               /\ "TerminateInstances" \in failed <=>
                    err = Error("TerminationError", in.ec2InstanceId)
               /\ "TerminateInstances" \notin failed <=> exitCode = 0
          /\ (pc = "exited" /\ exitCode = 0) => termCalls = 1)
  /\ [][pc = "TerminateEC2Instance" =>
          termCalls = 0 /\ termCalls' = 1 /\ pc' = "exited"]_vars

C15_Witness ==
  /\ in.mode = "stop" /\ pc = "exited" /\ termCalls = 1 /\ diCalls = 0
  /\ stopParams = <<"i-1">> /\ failed = {"TerminateInstances"}
  /\ err = Error("TerminationError", "i-1") /\ exitCode = 1

\* the place in iamLog of caller c's call op, 0 when c has not issued it
Pos(c, op) ==
  LET at == {i \in 1..Len(iamLog) : iamLog[i].caller = c /\ iamLog[i].op = op}
  IN IF at = {} THEN 0 ELSE CHOOSE i \in at : TRUE

\* callers a and b have both issued create for the same role
BothCreate(a, b) ==
  a # b /\ grole[a] = grole[b] /\ Pos(a, "create") # 0 /\ Pos(b, "create") # 0

\* caller c's create was answered with no error
Created(c) == gpc[c] = "attach" \/ Pos(c, "attach") # 0

\* caller c's attach was answered with no error
Attached(c) == Pos(c, "attach") # 0 /\ gpc[c] = "returned" /\ gret[c].err = ""

\* C16: two calls of GetOrCreateInstanceProfile for the same role can both
\* issue create, for the same profile name: they do so only when each call's
\* list was answered before the other call had attached the role (the window
\* after a call's list, as when both list before either creates).  The
\* profile is then created at most once: when the earlier create was
\* accepted, the later call returns CreateError and attaches nothing.
C16_ConcurrentCreate ==
  \A a, b \in Callers :
    BothCreate(a, b) =>
      /\ iamLog[Pos(a, "create")].profile = iamLog[Pos(b, "create")].profile
      /\ Attached(a) => Pos(b, "list") < Pos(a, "attach")
      /\ Pos(a, "attach") = 0 \/ Pos(b, "attach") = 0
      /\ Cardinality({i \in 1..Len(profiles) : profiles[i].name = grole[a]}) <= 1
      /\ (Pos(a, "create") < Pos(b, "create") /\ Created(a)) =>
           /\ gpc[b] = "returned"
           /\ gret[b] = [name |-> "", err |-> "CreateError"]

C16_Witness ==
  /\ BothCreate(1, 2)
  /\ Pos(1, "list") < Pos(2, "list") /\ Pos(2, "list") < Pos(1, "create")
  /\ Pos(1, "create") < Pos(2, "create")
  /\ gret[2].err = "CreateError" /\ gret[1] = [name |-> grole[1], err |-> ""]

IamOperations ==
  {"ListInstanceProfiles", "CreateInstanceProfile", "AddRoleToInstanceProfile"}

\* C17: in a start run with a role, RunInstances is reached only after
\* GetOrCreateInstanceProfile returned a profile name with no error, and its
\* request names that profile; when the list, create or attach call failed,
\* RunInstances is never called, no instance exists, no id is emitted and the
\* run ends with exit code 1.
C17_ProfileBeforeProvisioning ==
  (in.mode = "start" /\ in.iamRoleName # "") =>
    /\ (pc = "RunInstances" \/ runCalls > 0) =>
         /\ iamLog # <<>> /\ iamLog[1].op = "list"
         /\ gpc[Main] = "returned"
         /\ gret[Main].err = "" /\ gret[Main].name # ""
         /\ startParams.IamInstanceProfile = gret[Main].name
         /\ failed \cap IamOperations = {}
    /\ failed \cap IamOperations # {} =>
         /\ gret[Main].err \in {"ListError", "CreateError", "AttachError"}
         /\ runCalls = 0 /\ pc # "RunInstances" /\ provisioned = {}
         /\ diCalls = 0 /\ outputs = {}
         /\ pc \in {"GetOrCreateInstanceProfile", "exited"}
         /\ pc = "exited" =>
              exitCode = 1 /\ err = Error("ProfileError", gret[Main].err)

C17_Witness ==
  /\ in.mode = "start" /\ in.iamRoleName = "r1" /\ pc = "exited"
  /\ failed = {"AddRoleToInstanceProfile"} /\ OpsOf(Main) = <<"list", "create", "attach">>
  /\ err = Error("ProfileError", "AttachError") /\ runCalls = 0 /\ outputs = {}

\* C18: a failing DescribeInstances call ends the run in that step with the
\* DescribeError, exit code 1 and no output; a failing
\* DescribeInstanceInformation call makes IsSSMAgentRegistered return an error
\* (not false with no error) in that step, and ExecuteCommandOnEC2Instance
\* then returns that error, not AgentNotRegistered, without calling
\* SendCommand.  No describe call of either kind follows a failed one.
C18_DescribeFailureEndsPolling ==
  /\ []("DescribeInstances" \in failed =>
          /\ pc = "exited" /\ exitCode = 1 /\ outputs = {}
          /\ err = Error("DescribeError", instanceId)
          /\ firstRunning = 0)
  /\ []("DescribeInstanceInformation" \in failed =>
          /\ regRet = [set |-> TRUE, reg |-> FALSE, err |-> TRUE]
          /\ pc \in {"ExecuteCommandOnEC2Instance", "exited"}
          /\ sendCalls = 0 /\ gciCalls = 0 /\ dispatched = {} /\ outputs = {}
          /\ pc = "exited" =>
               exitCode = 1 /\ err.kind = "DescribeInformationError")
  /\ []((pc = "exited" /\ err.kind = "DescribeInformationError") =>
          "DescribeInstanceInformation" \in failed)
  /\ [][/\ "DescribeInstances" \in failed => diCalls' = diCalls
        /\ "DescribeInstanceInformation" \in failed => diiCalls' = diiCalls
        /\ ("DescribeInstances" \in failed' \ failed) => pc' = "exited"
        /\ ("DescribeInstanceInformation" \in failed' \ failed) =>
             pc' = "ExecuteCommandOnEC2Instance" /\ regRet'.err]_vars

C18_Witness ==
  /\ pc = "exited" /\ in.mode = "command"
  /\ failed = {"DescribeInstanceInformation"} /\ diiCalls = 2
  /\ err.kind = "DescribeInformationError" /\ sendCalls = 0

\* C19: IsSSMAgentRegistered returns: its describe calls are bounded by the
\* timeout and the interval alone.  With the 60 s and 5 s every command run
\* passes, whatever its command-max-wait-secs, it makes at most 12
\* DescribeInstanceInformation calls (12 when each call is instantaneous and
\* none reports the agent online); with timeout 0 it makes no call and
\* returns false with no error.
C19_RegistrationWaitBounded ==
  /\ [](/\ (in.mode = "command" /\ pc \notin {"getInputs", "exited"}) =>
             timeout = RegistrationTimeout /\ interval = RegistrationInterval
        /\ (timeout = RegistrationTimeout /\ interval = RegistrationInterval) =>
             diiCalls <= 12
        /\ diiCalls > 0 => (diiCalls - 1) * interval < timeout
        /\ (timeout = 0 /\ pc # "getInputs") =>
             /\ diiCalls = 0
             /\ pc = "ExecuteCommandOnEC2Instance" =>
                  regRet = [set |-> TRUE, reg |-> FALSE, err |-> FALSE])
  /\ (pc = "IsSSMAgentRegistered") ~> (pc = "ExecuteCommandOnEC2Instance")

C19_Witness ==
  /\ in.mode = "command" /\ commandMaxWaitTime = MinCommandWait
  /\ pc = "ExecuteCommandOnEC2Instance" /\ diiCalls = 12
  /\ regElapsed = RegistrationTimeout
  /\ regRet = [set |-> TRUE, reg |-> FALSE, err |-> FALSE]

\* C20: an output is set only by a run that ends with exit code 0, and only
\* the output of its mode: ec2-instance-id, with the id RunInstances returned,
\* in start mode once a DescribeInstances response reported running;
\* command-id, with the id SendCommand returned, in command mode once the
\* invocation wait returned with no error (on status Success).  A stop run
\* and a run that ends with an error set no output: when the wait after an
\* accepted SendCommand fails, the command stays dispatched and its id is
\* not emitted.
C20_OutputsOnlyOnSuccess ==
  /\ outputs # {} =>
       /\ pc = "exited" /\ exitCode = 0 /\ err = NoErr
       /\ \/ /\ in.mode = "start"
             /\ outputs = {<<"ec2-instance-id", instanceId>>}
             /\ instanceId \in provisioned
             /\ instanceState = "running" /\ firstRunning # 0
          \/ /\ in.mode = "command"
             /\ outputs = {<<"command-id", commandId>>}
             /\ commandId \in dispatched
             /\ Retryable(lastStatus) = "success" /\ gciCalls >= 1
  /\ (pc = "exited" /\ exitCode = 0) =>
       outputs = {} <=> in.mode = "stop"
  /\ in.mode \notin {"start", "command"} => outputs = {}
  /\ (pc = "exited" /\ exitCode # 0) => outputs = {}
  /\ (pc = "exited" /\ err.kind \in {"Timeout", "WaiterFailure", "InvocationError"}) =>
       /\ sendCalls = 1 /\ dispatched = {commandId} /\ commandId # ""
       /\ exitCode = 1 /\ outputs = {}

C20_Witness ==
  /\ pc = "exited" /\ in.mode = "command" /\ err.kind = "InvocationError"
  /\ sendCalls = 1 /\ dispatched = {"c-1"} /\ gciCalls = 2 /\ outputs = {}

\* C21: when RunInstances returned an instance and a DescribeInstances call
\* of the wait then failed, the run has ended in that step with the
\* DescribeError and exit code 1, and has set no output; RunInstances was
\* called once and TerminateInstances never, so the instance RunInstances
\* returned stays provisioned and its id is not emitted.
C21_ProvisionedThenWaitFails ==
  /\ []("DescribeInstances" \in failed =>
          /\ runCalls = 1 /\ "RunInstances" \notin failed
          /\ instanceId # "" /\ provisioned = {instanceId}
          /\ pc = "exited" /\ exitCode = 1
          /\ err = Error("DescribeError", instanceId)
          /\ outputs = {}
          /\ termCalls = 0 /\ stopParams = <<>>)
  /\ [][("DescribeInstances" \in failed' \ failed) =>
          /\ runCalls' = runCalls /\ termCalls' = termCalls
          /\ provisioned' = provisioned /\ instanceId' = instanceId
          /\ outputs' = outputs]_vars

C21_Witness ==
  /\ in.mode = "start" /\ pc = "exited" /\ failed = {"DescribeInstances"}
  /\ diCalls = 2 /\ runCalls = 1 /\ provisioned = {"i-1"} /\ termCalls = 0
  /\ outputs = {} /\ exitCode = 1

\* caller a's call created the profile and failed to attach the role, and was
\* over before caller b's call for the same role began
PartialFailureThen(a, b) ==
  /\ a # b /\ grole[a] = grole[b]
  /\ InSequence(a, b)
  /\ OpsOf(a) = <<"list", "create", "attach">>
  /\ gret[a] = [name |-> "", err |-> "AttachError"]

\* C22: after a call of GetOrCreateInstanceProfile that created the profile
\* and failed to attach the role, the profile exists with no role; a later
\* call for the same role whose list is answered finds no match, issues
\* create for the name that exists, returns CreateError and attaches nothing,
\* so no later call returns the profile.  No call issues attach but after its
\* own create was accepted.
C22_NoRecoveryAfterPartialFailure ==
  /\ \A c \in Callers :
       Pos(c, "attach") # 0 =>
         /\ 0 < Pos(c, "create") /\ Pos(c, "create") < Pos(c, "attach")
         /\ iamLog[Pos(c, "attach")].profile = iamLog[Pos(c, "create")].profile
  /\ \A a, b \in Callers :
       PartialFailureThen(a, b) =>
         /\ Matching(grole[a]) = {}
         /\ \E i \in 1..Len(profiles) :
              profiles[i] = [name |-> grole[a], roles |-> <<>>]
         /\ (gpc[b] # "list" /\ gret[b].err # "ListError") =>
              gpc[b] = "create" \/ Pos(b, "create") # 0
         /\ Pos(b, "create") # 0 =>
              /\ iamLog[Pos(b, "create")].profile = grole[a]
              /\ gpc[b] = "returned"
              /\ gret[b] = [name |-> "", err |-> "CreateError"]
         /\ Pos(b, "attach") = 0
         /\ gpc[b] = "returned" => gret[b].err \in {"ListError", "CreateError"}

C22_Witness ==
  /\ PartialFailureThen(1, 2)
  /\ OpsOf(2) = <<"list", "create">> /\ gpc[2] = "returned"
  /\ gret[2].err = "CreateError" /\ CountOps("create") = 2
  /\ CountOps("attach") = 1
====
